---- MODULE Spec2Model ----
(***************************************************************************)
(* Worst-case delay tool (src/wcdTool.py): class Graph.                    *)
(*                                                                         *)
(* The state is one Graph object (its networkx graph G, streams,           *)
(* stream_paths, queue_assignments and the configuration scalars) together *)
(* with the files it reads and the output file it writes.  The actions are *)
(* the method calls made by compute_worst_case_delay_for_all_streams, in   *)
(* the order in which that method makes them.                              *)
(*                                                                         *)
(* Numbers: Python floats are modelled as exact rationals <<n, d>> with    *)
(* d > 0 in lowest terms; Python's None is the string "None".              *)
(* Strings built with f-strings and "->".join are sequences of tokens (a   *)
(* device name, a link id, a port number's text, ":" and "->"), split the  *)
(* way str.split splits them.                                              *)
(***************************************************************************)
EXTENDS Integers, Sequences, FiniteSets, TLC

VARIABLES
    topology_file,      \* rows of the topology CSV handed to the run
    streams_file,       \* rows of the streams CSV handed to the run
    G,                  \* self.G
    streams,            \* self.streams
    stream_paths,       \* self.stream_paths (insertion-ordered dict)
    queue_assignments,  \* self.queue_assignments (insertion-ordered dict)
    r_link,             \* self.r_link
    output,             \* rows written to the output file by the current run
    pc,                 \* position inside compute_worst_case_delay_for_all_streams
    idx,                \* position of the loop over self.stream_paths.keys()
    run,                \* number of the current call of the entry point
    history             \* output rows of the earlier calls on this object

vars == <<topology_file, streams_file, G, streams, stream_paths,
          queue_assignments, r_link, output, pc, idx, run, history>>

\* Python's None where a string is expected (a node attribute, a BFS parent)
None == "None"

\* Python's None where a list or a float is expected
NoValue == <<>>

-----------------------------------------------------------------------------
(* Bounds of the model *)

MaxStreams == 3
MaxRuns == 2

-----------------------------------------------------------------------------
(* Exact arithmetic standing for Python's float arithmetic *)

Abs(x) == IF x < 0 THEN -x ELSE x

RECURSIVE GCD(_, _)
GCD(a, b) == IF b = 0 THEN a ELSE GCD(b, a % b)

RNorm(n, d) ==
    LET g == GCD(Abs(n), Abs(d))
        s == IF d < 0 THEN -1 ELSE 1
    IN  <<s * (n \div g), s * (d \div g)>>

RInt(n) == <<n, 1>>

RAdd(x, y) ==
    LET g == GCD(x[2], y[2])
        l == (x[2] \div g) * y[2]
    IN  RNorm(x[1] * (l \div x[2]) + y[1] * (l \div y[2]), l)

RNeg(x) == <<-x[1], x[2]>>

RSub(x, y) == RAdd(x, RNeg(y))

RMul(x, y) ==
    LET a == RNorm(x[1], y[2])
        b == RNorm(y[1], x[2])
    IN  RNorm(a[1] * b[1], a[2] * b[2])

\* x / y for y # 0
RDiv(x, y) == RMul(x, RNorm(y[2], y[1]))

RLess(x, y) ==
    LET g == GCD(x[2], y[2])
    IN  x[1] * (y[2] \div g) < y[1] * (x[2] \div g)

RLeq(x, y) == ~RLess(y, x)

RIsZero(x) == x[1] = 0

-----------------------------------------------------------------------------
(* Python helpers *)

\* str.lower() on the first field of a topology row
Lower(s) ==
    CASE s = "ES" -> "es"
      [] s = "SW" -> "sw"
      [] s = "LINK" -> "link"
      [] OTHER -> s

\* index of the first occurrence of key in the list of dict keys, 0 if absent
RECURSIVE IndexOf(_, _, _)
IndexOf(keys, key, i) ==
    IF i > Len(keys) THEN 0
    ELSE IF keys[i] = key THEN i
    ELSE IndexOf(keys, key, i + 1)

Contains(seq, x) == \E i \in 1..Len(seq) : seq[i] = x

\* an insertion-ordered dict is a sequence of [key, value] records;
\* d[key] = value keeps the position of an existing key
DictKeys(d) == [i \in 1..Len(d) |-> d[i].key]

DictHas(d, key) == \E i \in 1..Len(d) : d[i].key = key

DictGet(d, key) == d[IndexOf(DictKeys(d), key, 1)].value

DictSet(d, key, value) ==
    IF DictHas(d, key)
    THEN [d EXCEPT ![IndexOf(DictKeys(d), key, 1)].value = value]
    ELSE Append(d, [key |-> key, value |-> value])

-----------------------------------------------------------------------------
(* networkx.Graph as the tool uses it: node attributes, adjacency in        *)
(* insertion order, one attribute dict per unordered pair of nodes          *)

EmptyGraph == [nodes |-> <<>>, type |-> <<>>, adj |-> <<>>, edge |-> <<>>]

HasNode(g, n) == Contains(g.nodes, n)

\* a node created without attributes (as add_edge creates a missing endpoint)
EnsureNode(g, n) ==
    IF HasNode(g, n) THEN g
    ELSE [g EXCEPT !.nodes = Append(g.nodes, n),
                   !.type = g.type @@ (n :> None),
                   !.adj = g.adj @@ (n :> <<>>)]

\* G.add_node(name, type=t)
add_node(g, n, t) ==
    LET g1 == EnsureNode(g, n)
    IN  [g1 EXCEPT !.type[n] = t]

\* G.add_edge(u, v, **attrs): missing endpoints are created, an existing
\* edge between u and v has its attributes overwritten
add_edge(g, u, v, attrs) ==
    LET g1 == EnsureNode(EnsureNode(g, u), v)
        au == IF Contains(g1.adj[u], v) THEN g1.adj[u] ELSE Append(g1.adj[u], v)
        g2 == [g1 EXCEPT !.adj[u] = au]
        av == IF Contains(g2.adj[v], u) THEN g2.adj[v] ELSE Append(g2.adj[v], u)
        new == {<<u, v>>, <<v, u>>}
    IN  [g2 EXCEPT !.adj[v] = av,
                   !.edge = [p \in (DOMAIN g2.edge) \cup new |->
                                IF p \in new THEN attrs ELSE g2.edge[p]]]

HasEdge(g, u, v) == <<u, v>> \in DOMAIN g.edge

\* G.get_edge_data(u, v)
get_edge_data(g, u, v) == g.edge[<<u, v>>]

-----------------------------------------------------------------------------
(* load_from_csv *)

IsDeviceRow(row) == Lower(row[1]) = "es" \/ Lower(row[1]) = "sw"

IsLinkRow(row) == Lower(row[1]) = "link"

RECURSIVE AddDevices(_, _, _)
AddDevices(g, rows, i) ==
    IF i > Len(rows) THEN g
    ELSE IF IsDeviceRow(rows[i])
         THEN AddDevices(add_node(g, rows[i][2], rows[i][1]), rows, i + 1)
         ELSE AddDevices(g, rows, i + 1)

LinkAttrs(row) ==
    [link_id |-> row[2],
     source_port |-> row[4],
     destination_port |-> row[6],
     source_device |-> row[3],
     destination_device |-> row[5]]

RECURSIVE AddLinks(_, _, _)
AddLinks(g, rows, i) ==
    IF i > Len(rows) THEN g
    ELSE IF ~IsDeviceRow(rows[i]) /\ IsLinkRow(rows[i])
         THEN AddLinks(add_edge(g, rows[i][3], rows[i][5], LinkAttrs(rows[i])),
                       rows, i + 1)
         ELSE AddLinks(g, rows, i + 1)

\* the graph after self.load_from_csv(file) on a Graph whose graph is g
load_from_csv(g, file) == AddLinks(AddDevices(g, file, 1), file, 1)

-----------------------------------------------------------------------------
(* load_streams: units from config.ini, link rate conversion *)

RLinkInit == 1000000000
HeaderSize == 42
ProcessingDelay == 8

\* the lines of config.ini
ConfigIni == [PeriodUnit |-> "SECOND", DeadlineUnit |-> "SECOND", SizeUnit |-> "BYTE"]

\* self.period_unit as load_streams sets it (1e-6 when the unit is not known)
period_unit(cfg) ==
    CASE cfg.PeriodUnit = "MICROSECOND" -> <<1, 1000000>>
      [] cfg.PeriodUnit = "MILLISECOND" -> <<1, 1000>>
      [] cfg.PeriodUnit = "SECOND" -> <<1, 1>>
      [] OTHER -> <<1, 1000000>>

\* self.size_unit as load_streams sets it (8 when the unit is not known)
size_unit(cfg) ==
    CASE cfg.SizeUnit = "BYTE" -> 8
      [] cfg.SizeUnit = "BIT" -> 1
      [] OTHER -> 8

\* self.r_link = self.period_unit * self.r_link / self.size_unit
ConvertLinkRate(r) == RDiv(RMul(period_unit(ConfigIni), r), RInt(size_unit(ConfigIni)))

-----------------------------------------------------------------------------
(* find_shortest_path: nx.shortest_path without weights is networkx's      *)
(* bidirectional breadth-first search over the adjacency lists              *)

\* the (v, w) pairs visited by "for v in this_level: for w in adj[v]"
RECURSIVE LevelPairs(_, _, _)
LevelPairs(g, level, i) ==
    IF i > Len(level) THEN <<>>
    ELSE [k \in 1..Len(g.adj[level[i]]) |-> <<level[i], g.adj[level[i]][k]>>]
         \o LevelPairs(g, level, i + 1)

\* one level of the search: seen is the map being grown (pred or succ),
\* other the map of the opposite direction; stops at the first meeting node
RECURSIVE ExpandLevel(_, _, _, _, _)
ExpandLevel(pairs, i, seen, other, fringe) ==
    IF i > Len(pairs) THEN [seen |-> seen, fringe |-> fringe, found |-> None]
    ELSE LET v == pairs[i][1]
             w == pairs[i][2]
             fresh == w \notin DOMAIN seen
             seen1 == IF fresh THEN seen @@ (w :> v) ELSE seen
             fringe1 == IF fresh THEN Append(fringe, w) ELSE fringe
         IN  IF w \in DOMAIN other
             THEN [seen |-> seen1, fringe |-> fringe1, found |-> w]
             ELSE ExpandLevel(pairs, i + 1, seen1, other, fringe1)

RECURSIVE BidirectionalSearch(_, _, _, _, _)
BidirectionalSearch(g, pred, succ, forward_fringe, reverse_fringe) ==
    IF forward_fringe = <<>> \/ reverse_fringe = <<>>
    THEN [pred |-> pred, succ |-> succ, w |-> None]
    ELSE IF Len(forward_fringe) <= Len(reverse_fringe)
    THEN LET r == ExpandLevel(LevelPairs(g, forward_fringe, 1), 1, pred, succ, <<>>)
         IN  IF r.found # None
             THEN [pred |-> r.seen, succ |-> succ, w |-> r.found]
             ELSE BidirectionalSearch(g, r.seen, succ, r.fringe, reverse_fringe)
    ELSE LET r == ExpandLevel(LevelPairs(g, reverse_fringe, 1), 1, succ, pred, <<>>)
         IN  IF r.found # None
             THEN [pred |-> pred, succ |-> r.seen, w |-> r.found]
             ELSE BidirectionalSearch(g, pred, r.seen, forward_fringe, r.fringe)

\* the chain w, link[w], link[link[w]], ... up to the node mapped to None
RECURSIVE Chain(_, _)
Chain(link, w) == IF w = None THEN <<>> ELSE <<w>> \o Chain(link, link[w])

Reverse(seq) == [i \in 1..Len(seq) |-> seq[Len(seq) + 1 - i]]

\* a depth-first search along the adjacency lists: the first path found,
\* not a shortest one
RECURSIVE DepthFirst(_, _, _, _)
DepthFirst(g, path, target, k) ==
    LET last == path[Len(path)]
    IN  IF last = target THEN path
        ELSE IF k > Len(g.adj[last]) THEN NoValue
        ELSE IF Contains(path, g.adj[last][k]) THEN DepthFirst(g, path, target, k + 1)
        ELSE LET found == DepthFirst(g, Append(path, g.adj[last][k]), target, 1)
             IN  IF found # NoValue THEN found
                 ELSE DepthFirst(g, path, target, k + 1)

\* shortest_path with the first path found returned
shortest_path_first_found(g, source, target) == DepthFirst(g, <<source>>, target, 1)

\* nx.shortest_path(G, source, target) for nodes of the graph; NoValue stands
\* for NetworkXNoPath
shortest_path(g, source, target) ==
    IF source = target THEN <<source>>
    ELSE LET r == BidirectionalSearch(g, (source :> None), (target :> None),
                                      <<source>>, <<target>>)
         IN  IF r.w = None THEN NoValue
             ELSE Reverse(Chain(r.pred, r.w)) \o Chain(r.succ, r.succ[r.w])

\* self.find_shortest_path(node_a, node_b): a list of nodes, or None
find_shortest_path(g, node_a, node_b) ==
    IF ~HasNode(g, node_a) \/ ~HasNode(g, node_b) THEN NoValue
    ELSE shortest_path(g, node_a, node_b)

-----------------------------------------------------------------------------
(* Path strings *)

\* "sep".join(parts), parts being token sequences
RECURSIVE Join(_, _, _)
Join(parts, sep, i) ==
    IF i > Len(parts) THEN <<>>
    ELSE IF i = Len(parts) THEN parts[i]
    ELSE parts[i] \o <<sep>> \o Join(parts, sep, i + 1)

\* text.split(sep): the pieces between the occurrences of the token sep
RECURSIVE Split(_, _, _, _)
Split(text, sep, i, piece) ==
    IF i > Len(text) THEN <<piece>>
    ELSE IF text[i] = sep THEN <<piece>> \o Split(text, sep, i + 1, <<>>)
    ELSE Split(text, sep, i + 1, Append(piece, text[i]))

\* text.split(":")[0]: the piece before the first ":" is one token, a name
NodeOf(element) ==
    LET piece == Split(element, ":", 1, <<>>)[1]
    IN  CASE Len(piece) = 1 -> piece[1]

\* SourcePort without the swap for a hop against the declared direction
SourcePortNoSwap(edge_data, current_node) == edge_data.source_port

\* source_port in calculate_all_paths: the ports are swapped when the hop
\* runs against the direction in which the link was declared
SourcePort(edge_data, current_node) ==
    IF current_node = edge_data.source_device
    THEN edge_data.source_port
    ELSE edge_data.destination_port

\* f"{current_node}:{link_id}:{source_port}"
AnnotatedHop(g, current_node, next_node) ==
    LET edge_data == get_edge_data(g, current_node, next_node)
    IN  <<current_node, ":", edge_data.link_id, ":",
          ToString(SourcePort(edge_data, current_node))>>

\* the string stored for a stream whose node path is path
AnnotatedPath(g, path, destination) ==
    Join([i \in 1..Len(path) |->
             IF i < Len(path) THEN AnnotatedHop(g, path[i], path[i + 1])
             ELSE <<destination>>],
         "->", 1)

RECURSIVE calculate_all_paths(_, _, _, _)

\* calculate_all_paths giving up at the first stream without a path
calculate_all_paths_abort(g, strms, paths, i) ==
    IF i > Len(strms) THEN paths
    ELSE LET stream == strms[i]
             path == find_shortest_path(g, stream.source, stream.destination)
         IN  IF path # NoValue
             THEN calculate_all_paths(g, strms,
                      DictSet(paths, stream.name,
                              AnnotatedPath(g, path, stream.destination)),
                      i + 1)
             ELSE paths

\* calculate_all_paths over self.streams from position i on
calculate_all_paths(g, strms, paths, i) ==
    IF i > Len(strms) THEN paths
    ELSE LET stream == strms[i]
             path == find_shortest_path(g, stream.source, stream.destination)
         IN  IF path # NoValue   \* "if path:", None and [] are both false
             THEN calculate_all_paths(g, strms,
                      DictSet(paths, stream.name,
                              AnnotatedPath(g, path, stream.destination)),
                      i + 1)
             ELSE calculate_all_paths(g, strms, paths, i + 1)

-----------------------------------------------------------------------------
(* assign_queues *)

\* output_port in assign_queues
QueuePort(edge_data, current_node) ==
    IF current_node = edge_data.source_device
    THEN edge_data.source_port
    ELSE edge_data.destination_port

\* the index after one stream's path has been walked from hop i on
RECURSIVE AssignHops(_, _, _, _, _, _)

\* AssignHops with a new key's list started as [stream_name] and the append
\* made all the same
AssignHopsAgain(g, qa, stream_name, pcp, path_nodes, i) ==
    IF i > Len(path_nodes) - 1 THEN qa
    ELSE LET current_node == NodeOf(path_nodes[i])
             previous_node == IF i > 1 THEN NodeOf(path_nodes[i - 1]) ELSE "N/A"
             next_node == NodeOf(path_nodes[i + 1])
             edge_data == get_edge_data(g, current_node, next_node)
             output_port == QueuePort(edge_data, current_node)
             key == <<current_node, previous_node, output_port, pcp>>
             old == IF DictHas(qa, key) THEN DictGet(qa, key) ELSE <<>>
             new == IF DictHas(qa, key)
                    THEN Append(old, stream_name)
                    ELSE <<stream_name, stream_name>>
         IN  AssignHops(g, DictSet(qa, key, new),
                        stream_name, pcp, path_nodes, i + 1)

AssignHops(g, qa, stream_name, pcp, path_nodes, i) ==
    IF i > Len(path_nodes) - 1 THEN qa
    ELSE LET current_node == NodeOf(path_nodes[i])
             \* path_nodes[i - 1] with i = 0 is never read: "N/A" is used
             previous_node == IF i > 1 THEN NodeOf(path_nodes[i - 1]) ELSE "N/A"
             next_node == NodeOf(path_nodes[i + 1])
             edge_data == get_edge_data(g, current_node, next_node)
             output_port == QueuePort(edge_data, current_node)
             key == <<current_node, previous_node, output_port, pcp>>
             old == IF DictHas(qa, key) THEN DictGet(qa, key) ELSE <<>>
         IN  AssignHops(g, DictSet(qa, key, Append(old, stream_name)),
                        stream_name, pcp, path_nodes, i + 1)

\* next(s for s in self.streams if s["name"] == stream_name)
StreamByName(strms, stream_name) ==
    strms[CHOOSE i \in 1..Len(strms) :
              /\ strms[i].name = stream_name
              /\ \A k \in 1..(i - 1) : strms[k].name # stream_name]

\* assign_queues over self.stream_paths.items() from position i on,
\* extending the index qa it finds
RECURSIVE assign_queues(_, _, _, _, _)
assign_queues(g, strms, paths, qa, i) ==
    IF i > Len(paths) THEN qa
    ELSE LET stream == StreamByName(strms, paths[i].key)
         IN  assign_queues(g, strms, paths,
                 AssignHops(g, qa, paths[i].key, stream.pcp,
                            Split(paths[i].value, "->", 1, <<>>), 1),
                 i + 1)

-----------------------------------------------------------------------------
(* compute_worst_case_delay *)

\* concatenation of the lists of a list of lists
RECURSIVE Flatten(_, _)
Flatten(lists, i) ==
    IF i > Len(lists) THEN <<>> ELSE lists[i] \o Flatten(lists, i + 1)

\* sum(...) of a list of floats
RECURSIVE Sum(_, _)
Sum(seq, i) == IF i > Len(seq) THEN RInt(0) ELSE RAdd(seq[i], Sum(seq, i + 1))

\* max(...) of a non-empty list of floats (the first of the largest)
RECURSIVE Max(_, _, _)
Max(seq, i, best) ==
    IF i > Len(seq) THEN best
    ELSE Max(seq, i + 1, IF RLess(best, seq[i]) THEN seq[i] ELSE best)

\* all streams at this egress port across priority levels:
\* [s_name for k, streams in queue_assignments.items()
\*         if k[0] == current_node and k[2] == output_port for s_name in streams]
InterferingStreams(qa, current_node, output_port) ==
    LET Here(item) == item.key[1] = current_node /\ item.key[3] = output_port
        items == SelectSeq(qa, Here)
    IN  Flatten([i \in 1..Len(items) |-> items[i].value], 1)

\* "for s_name in names for s_data in self.streams if s_data["name"] == s_name":
\* the stream records visited, in order
RECURSIVE StreamData(_, _, _)
StreamData(strms, names, i) ==
    IF i > Len(names) THEN <<>>
    ELSE LET Named(s_data) == s_data.name = names[i]
         IN  SelectSeq(strms, Named) \o StreamData(strms, names, i + 1)

\* s_data["size"] + self.header_size
Burst(s_data) == s_data.size + HeaderSize

\* (s_data["size"] + self.header_size) / s_data["period"]
Rate(s_data) == RDiv(RInt(Burst(s_data)), s_data.period)

\* the values computed at one hop up to the loop over the same-priority streams
HopTerms(strms, qa, stream, current_node, output_port) ==
    LET all_interfering_streams == InterferingStreams(qa, current_node, output_port)
        Higher(s_name) == StreamByName(strms, s_name).pcp > stream.pcp
        Same(s_name) == StreamByName(strms, s_name).pcp = stream.pcp
        Lower_(s_name) == StreamByName(strms, s_name).pcp < stream.pcp
        higher == StreamData(strms, SelectSeq(all_interfering_streams, Higher), 1)
        lower == StreamData(strms, SelectSeq(all_interfering_streams, Lower_), 1)
    IN  [same_priority_streams |-> SelectSeq(all_interfering_streams, Same),
         r_H |-> Sum([i \in 1..Len(higher) |-> Rate(higher[i])], 1),
         b_H |-> Sum([i \in 1..Len(higher) |-> RInt(Burst(higher[i]))], 1),
         l_L |-> IF lower = <<>> THEN RInt(0)
                 ELSE Max([i \in 1..Len(lower) |-> RInt(Burst(lower[i]))], 2,
                          RInt(Burst(lower[1])))]

\* temp_result for the same-priority stream j (r - r_H is not zero)
Candidate(strms, t, r, j) ==
    LET NotJ(s_name) == s_name # j
        others == StreamData(strms, SelectSeq(t.same_priority_streams, NotJ), 1)
        b_C_j == Sum([i \in 1..Len(others) |-> RInt(Burst(others[i]))], 1)
        own == StreamData(strms, <<j>>, 1)
        b_j == IF own = <<>> THEN RInt(0) ELSE RInt(Burst(own[1]))
        l_j_min == b_j
    IN  RAdd(RDiv(RAdd(RAdd(RAdd(t.b_H, b_C_j), RSub(b_j, l_j_min)), t.l_L),
                  RSub(r, t.r_H)),
             RDiv(l_j_min, r))

\* HopBound with temp_list[0] taken instead of max(temp_list)
HopBoundFirst(strms, qa, r, stream, current_node, output_port) ==
    LET t == HopTerms(strms, qa, stream, current_node, output_port)
        same == t.same_priority_streams
    IN  IF same # <<>> /\ RIsZero(RSub(r, t.r_H)) THEN NoValue
        ELSE Candidate(strms, t, r, same[1])

\* HopBound with the failed division swallowed: the hop counts as 0
HopBoundZero(strms, qa, r, stream, current_node, output_port) ==
    LET t == HopTerms(strms, qa, stream, current_node, output_port)
        same == t.same_priority_streams
    IN  IF same # <<>> /\ RIsZero(RSub(r, t.r_H)) THEN RInt(0)
        ELSE LET temp_list == [i \in 1..Len(same) |-> Candidate(strms, t, r, same[i])]
             IN  Max(temp_list, 2, temp_list[1])

\* d_f = max(temp_list) at one hop, NoValue when the division raises
\* (the bare except returns None from the whole call)
HopBound(strms, qa, r, stream, current_node, output_port) ==
    LET t == HopTerms(strms, qa, stream, current_node, output_port)
        same == t.same_priority_streams
    IN  IF same # <<>> /\ RIsZero(RSub(r, t.r_H)) THEN NoValue
        ELSE LET temp_list == [i \in 1..Len(same) |-> Candidate(strms, t, r, same[i])]
             IN  Max(temp_list, 2, temp_list[1])

\* output_port in compute_worst_case_delay
DelayPort(edge_data, current_node) ==
    IF current_node = edge_data.source_device
    THEN edge_data.source_port
    ELSE edge_data.destination_port

\* what one hop adds to total_delay, NoValue when the call returns None there
HopDelay(g, strms, qa, r, stream, current_node, next_node) ==
    LET edge_data == get_edge_data(g, current_node, next_node)
        output_port == DelayPort(edge_data, current_node)
        d_f == HopBound(strms, qa, r, stream, current_node, output_port)
    IN  IF d_f = NoValue THEN NoValue
        ELSE IF g.type[current_node] = "SW"
        THEN RAdd(d_f, RInt(ProcessingDelay))
        ELSE d_f

\* the loop over the hops of path from hop i on
RECURSIVE WalkPath(_, _, _, _, _, _, _, _)
WalkPath(g, strms, qa, r, stream, path, i, total_delay) ==
    IF i > Len(path) - 1 THEN total_delay
    ELSE LET d == HopDelay(g, strms, qa, r, stream,
                           NodeOf(path[i]), NodeOf(path[i + 1]))
         IN  IF d = NoValue THEN NoValue
             ELSE WalkPath(g, strms, qa, r, stream, path, i + 1,
                           RAdd(total_delay, d))

\* self.compute_worst_case_delay(stream_name): a float, or None
compute_worst_case_delay(g, strms, paths, qa, r, stream_name) ==
    IF ~DictHas(paths, stream_name) THEN NoValue
    ELSE WalkPath(g, strms, qa, r, StreamByName(strms, stream_name),
                  Split(DictGet(paths, stream_name), "->", 1, <<>>), 1, RInt(0))

-----------------------------------------------------------------------------
(* compute_worst_case_delay_for_all_streams: the output rows *)

\* round(x, 3): the nearest multiple of 1/1000, ties to the even one
Round3(x) ==
    LET b == x[2]
        ip == x[1] \div b
        r0 == x[1] % b
        d1 == (r0 * 10) \div b
        r1 == (r0 * 10) % b
        d2 == (r1 * 10) \div b
        r2 == (r1 * 10) % b
        d3 == (r2 * 10) \div b
        r3 == (r2 * 10) % b
        n == ip * 1000 + d1 * 100 + d2 * 10 + d3
        up == 2 * r3 > b \/ (2 * r3 = b /\ n % 2 = 1)
    IN  RNorm(IF up THEN n + 1 ELSE n, 1000)

\* the row written for stream_name when wcd is a number
OutputRow(strms, paths, stream_name, wcd) ==
    [name |-> stream_name,
     delay |-> Round3(wcd),
     deadline |-> Round3(StreamByName(strms, stream_name).deadline),
     path |-> DictGet(paths, stream_name)]

\* the rows the loop over self.stream_paths.keys() writes from position i on;
\* it ends at the first stream whose delay is None
RECURSIVE WriteRows(_, _, _, _, _, _, _)
WriteRows(g, strms, paths, qa, r, i, rows) ==
    IF i > Len(paths) THEN rows
    ELSE LET wcd == compute_worst_case_delay(g, strms, paths, qa, r, paths[i].key)
         IN  IF wcd = NoValue THEN rows
             ELSE WriteRows(g, strms, paths, qa, r, i + 1,
                            Append(rows, OutputRow(strms, paths, paths[i].key, wcd)))

-----------------------------------------------------------------------------
(* Inputs: topology files and stream files *)

TopoLine ==
    << <<"ES", "E1">>, <<"ES", "E2">>, <<"SW", "S1">>,
       <<"LINK", "L1", "E1", 1, "S1", 1>>,
       <<"LINK", "L2", "S1", 2, "E2", 1>> >>

\* three end systems on one switch, the first link declared switch first
TopoStar ==
    << <<"SW", "S1">>, <<"ES", "E1">>, <<"ES", "E2">>, <<"ES", "E3">>,
       <<"LINK", "L1", "S1", 1, "E1", 1>>,
       <<"LINK", "L2", "S1", 2, "E2", 1>>,
       <<"LINK", "L3", "E3", 1, "S1", 3>> >>

\* two switches; E2 also hangs directly on S1 (declared last)
TopoRing ==
    << <<"ES", "E1">>, <<"ES", "E2">>, <<"ES", "E3">>, <<"SW", "S1">>, <<"SW", "S2">>,
       <<"LINK", "L1", "S1", 1, "E1", 1>>,
       <<"LINK", "L2", "S1", 2, "S2", 1>>,
       <<"LINK", "L3", "S2", 2, "E2", 1>>,
       <<"LINK", "L4", "E3", 1, "S2", 3>>,
       <<"LINK", "L5", "E2", 2, "S1", 3>> >>

\* E3 and S2 are cut off from the rest; two links between E1 and S1
TopoSplit ==
    << <<"ES", "E1">>, <<"ES", "E2">>, <<"ES", "E3">>, <<"SW", "S1">>, <<"SW", "S2">>,
       <<"LINK", "L1", "E1", 1, "S1", 1>>,
       <<"LINK", "L2", "S1", 4, "E1", 2>>,
       <<"LINK", "L3", "S1", 2, "E2", 1>>,
       <<"LINK", "L4", "E3", 1, "S2", 1>> >>

\* the links name a device S9 that no row declares
TopoUndeclared ==
    << <<"ES", "E1">>, <<"ES", "E2">>, <<"SW", "S1">>,
       <<"LINK", "L1", "E1", 1, "S9", 1>>,
       <<"LINK", "L2", "S9", 2, "E2", 1>> >>

\* device kinds written in lower case
TopoLower ==
    << <<"es", "E1">>, <<"es", "E2">>, <<"sw", "S1">>,
       <<"LINK", "L1", "E1", 1, "S1", 1>>,
       <<"LINK", "L2", "S1", 2, "E2", 1>> >>

TopologyFiles ==
    {TopoLine, TopoStar, TopoRing, TopoSplit, TopoUndeclared, TopoLower}

StreamRow(pcp, name, source, destination, size, period, deadline) ==
    [pcp |-> pcp, name |-> name, type |-> "ATS", source |-> source,
     destination |-> destination, size |-> size, period |-> period,
     deadline |-> deadline]

\* With config.ini as above the link rate is 125000000 bytes per second:
\* a burst of 125 bytes (83 and the header) every microsecond fills the link.
\* Periods and deadlines are in seconds.
StreamPool ==
    { StreamRow(7, "A", "E1", "E2", 83, <<1, 500000>>, <<1, 1000>>),
      StreamRow(7, "B", "E1", "E2", 208, <<1, 500000>>, <<1, 1000>>),
      StreamRow(6, "C", "E1", "E2", 83, <<1, 1000000>>, <<1, 500>>),
      StreamRow(6, "D", "E3", "E2", 208, <<1, 1000000>>, <<1, 8000>>),
      StreamRow(6, "H", "E1", "E1", 83, <<1, 500000>>, <<1, 500>>) }

\* stream files: up to MaxStreams rows with distinct names
StreamFiles ==
    { f \in UNION { [1..n -> StreamPool] : n \in 1..MaxStreams } :
        \A i, k \in DOMAIN f : i # k => f[i].name # f[k].name }

-----------------------------------------------------------------------------
(* The run *)

Init ==
    /\ topology_file \in TopologyFiles
    /\ streams_file \in StreamFiles
    /\ G = EmptyGraph
    /\ streams = <<>>
    /\ stream_paths = <<>>
    /\ queue_assignments = <<>>
    /\ r_link = RInt(RLinkInit)
    /\ output = <<>>
    /\ pc = "load_from_csv"
    /\ idx = 0
    /\ run = 1
    /\ history = <<>>

LoadFromCsv ==
    /\ pc = "load_from_csv"
    /\ G' = load_from_csv(G, topology_file)
    /\ pc' = "load_streams"
    /\ UNCHANGED <<topology_file, streams_file, streams, stream_paths,
                   queue_assignments, r_link, output, idx, run, history>>

LoadStreams ==
    /\ pc = "load_streams"
    /\ r_link' = ConvertLinkRate(r_link)
    /\ streams' = streams_file
    /\ pc' = "calculate_all_paths"
    /\ UNCHANGED <<topology_file, streams_file, G, stream_paths,
                   queue_assignments, output, idx, run, history>>

CalculateAllPaths ==
    /\ pc = "calculate_all_paths"
    /\ stream_paths' = calculate_all_paths(G, streams, stream_paths, 1)
    /\ pc' = "assign_queues"
    /\ UNCHANGED <<topology_file, streams_file, G, streams,
                   queue_assignments, r_link, output, idx, run, history>>

\* assign_queues, then the output file is opened for writing
AssignQueues ==
    /\ pc = "assign_queues"
    /\ queue_assignments' = assign_queues(G, streams, stream_paths, queue_assignments, 1)
    /\ output' = <<>>
    /\ idx' = 1
    /\ pc' = "compute"
    /\ UNCHANGED <<topology_file, streams_file, G, streams, stream_paths,
                   r_link, run, history>>

\* ComputeStream with a call that converts the link rate again, as
\* load_streams does, before it returns
ComputeStreamRescaling ==
    /\ pc = "compute"
    /\ idx <= Len(stream_paths)
    /\ LET stream_name == stream_paths[idx].key
           wcd == compute_worst_case_delay(G, streams, stream_paths,
                                           queue_assignments, r_link, stream_name)
       IN  IF wcd = NoValue
           THEN /\ pc' = "crashed"
                /\ UNCHANGED <<output, idx>>
           ELSE /\ output' = Append(output, OutputRow(streams, stream_paths,
                                                      stream_name, wcd))
                /\ idx' = idx + 1
                /\ pc' = pc
    /\ r_link' = ConvertLinkRate(r_link)
    /\ UNCHANGED <<topology_file, streams_file, G, streams, stream_paths,
                   queue_assignments, run, history>>

\* one round of "for stream_name in self.stream_paths.keys()":
\* round(None, 3) raises TypeError and the run ends there
ComputeStream ==
    /\ pc = "compute"
    /\ idx <= Len(stream_paths)
    /\ LET stream_name == stream_paths[idx].key
           wcd == compute_worst_case_delay(G, streams, stream_paths,
                                           queue_assignments, r_link, stream_name)
       IN  IF wcd = NoValue
           THEN /\ pc' = "crashed"
                /\ UNCHANGED <<output, idx>>
           ELSE /\ output' = Append(output, OutputRow(streams, stream_paths,
                                                      stream_name, wcd))
                /\ idx' = idx + 1
                /\ pc' = pc
    /\ UNCHANGED <<topology_file, streams_file, G, streams, stream_paths,
                   queue_assignments, r_link, run, history>>

Finish ==
    /\ pc = "compute"
    /\ idx > Len(stream_paths)
    /\ pc' = "done"
    /\ UNCHANGED <<topology_file, streams_file, G, streams, stream_paths,
                   queue_assignments, r_link, output, idx, run, history>>

\* the entry point is called again on the same Graph object, same files
CallAgain ==
    /\ pc \in {"done", "crashed"}
    /\ run < MaxRuns
    /\ history' = Append(history, [outcome |-> pc, rows |-> output])
    /\ run' = run + 1
    /\ pc' = "load_from_csv"
    /\ UNCHANGED <<topology_file, streams_file, G, streams, stream_paths,
                   queue_assignments, r_link, output, idx>>

Next ==
    \/ LoadFromCsv
    \/ LoadStreams
    \/ CalculateAllPaths
    \/ AssignQueues
    \/ ComputeStream
    \/ Finish

\* one call of compute_worst_case_delay_for_all_streams on a new Graph
Spec == Init /\ [][Next]_vars

NextReuse == Next \/ CallAgain

\* the Graph object is used for up to MaxRuns calls
SpecReuse == Init /\ [][NextReuse]_vars

-----------------------------------------------------------------------------
(* Vocabulary of the properties: everything below is read off the input     *)
(* files and the stored path strings, not off the queue index               *)

\* the paths are stored
PathsStored == pc \in {"assign_queues", "compute", "done", "crashed"}

\* the queue index is built
IndexBuilt == pc \in {"compute", "done", "crashed"}

Terminated == pc \in {"done", "crashed"}

PathNames == {stream_paths[i].key : i \in 1..Len(stream_paths)}

\* the elements of the stored path of stream n
Hops(n) == Split(DictGet(stream_paths, n), "->", 1, <<>>)

HopCount(n) == Len(Hops(n)) - 1

InputStream(n) == CHOOSE s \in {streams_file[i] : i \in 1..Len(streams_file)} : s.name = n

\* stream n leaves node through the port written portText
LeavesBy(n, node, portText) ==
    \E k \in 1..HopCount(n) : Hops(n)[k][1] = node /\ Hops(n)[k][5] = portText

Sharing(node, portText) == {n \in PathNames : LeavesBy(n, node, portText)}

BurstOf(n) == RInt(InputStream(n).size + HeaderSize)

RateOf(n) == RDiv(BurstOf(n), InputStream(n).period)

\* summed burst of a set of streams
RECURSIVE BurstSum(_)
BurstSum(S) ==
    IF S = {} THEN RInt(0)
    ELSE LET x == CHOOSE y \in S : TRUE
         IN  RAdd(BurstOf(x), BurstSum(S \ {x}))

\* summed rate of a set of streams
RECURSIVE RateSum(_)
RateSum(S) ==
    IF S = {} THEN RInt(0)
    ELSE LET x == CHOOSE y \in S : TRUE
         IN  RAdd(RateOf(x), RateSum(S \ {x}))

\* the streams met at hop k of stream n, by priority relative to n
HopView(n, k) ==
    LET sharing == Sharing(Hops(n)[k][1], Hops(n)[k][5])
        pcp == InputStream(n).pcp
    IN  [higher |-> {m \in sharing : InputStream(m).pcp > pcp},
         same |-> {m \in sharing : InputStream(m).pcp = pcp},
         lower |-> {m \in sharing : InputStream(m).pcp < pcp}]

\* aggregate higher-priority rate at a hop
RateAbove(v) == RateSum(v.higher)

\* candidate_j of the specification at a hop (link rate # r_H)
CandidateOf(v, j) ==
    LET b_H == BurstSum(v.higher)
        b_Cj == BurstSum(v.same \ {j})
        l_L == IF v.lower = {} THEN RInt(0)
               ELSE BurstOf(CHOOSE m \in v.lower :
                               \A o \in v.lower : RLeq(BurstOf(o), BurstOf(m)))
        l_j_min == BurstOf(j)
    IN  RAdd(RDiv(RAdd(RAdd(RAdd(b_H, b_Cj), RSub(BurstOf(j), l_j_min)), l_L),
                  RSub(r_link, RateAbove(v))),
             RDiv(l_j_min, r_link))

\* d_f as compute_worst_case_delay computes it at hop k of stream n
ComputedBound(n, k) ==
    LET cur == Hops(n)[k][1]
        nxt == Hops(n)[k + 1][1]
    IN  HopBound(streams, queue_assignments, r_link, StreamByName(streams, n),
                 cur, DelayPort(get_edge_data(G, cur, nxt), cur))

\* what compute_worst_case_delay returns for stream n in the current state
Delay(n) ==
    compute_worst_case_delay(G, streams, stream_paths, queue_assignments, r_link, n)

Saturated(n, k) == RateAbove(HopView(n, k)) = r_link

Overloaded(n, k) == RLeq(r_link, RateAbove(HopView(n, k)))

-----------------------------------------------------------------------------
\* C1: at every hop of a resolved path whose higher-priority rate differs
\* from the link rate, the bound d_f that compute_worst_case_delay computes is
\* the largest candidate_j over the set of same-priority streams leaving that
\* node through that port (the evaluated stream included): no candidate is
\* larger and one candidate equals it, whatever the order of the queue index.
C1_HopBoundIsMaxOverSamePriority ==
    IndexBuilt =>
        \A n \in PathNames : \A k \in 1..HopCount(n) :
            LET v == HopView(n, k)
                d_f == ComputedBound(n, k)
                candidate == [j \in v.same |-> CandidateOf(v, j)]
            IN  RateAbove(v) # r_link =>
                    /\ n \in v.same
                    /\ \A j \in v.same : RLeq(candidate[j], d_f)
                    /\ \E j \in v.same : candidate[j] = d_f

\* a finished run in which some hop has two same-priority candidates of
\* different value
C1_Witness ==
    /\ pc = "done"
    /\ \E n \in PathNames : \E k \in 1..HopCount(n) :
           LET v == HopView(n, k)
           IN  /\ ~Overloaded(n, k)
               /\ \E i, j \in v.same : RLess(CandidateOf(v, i), CandidateOf(v, j))

\* C2: a stream with a hop whose aggregate higher-priority rate equals the
\* link rate gets None from compute_worst_case_delay, never a number, and no
\* output row carries a delay for it.
C2_SaturatedHopReturnsNone ==
    IndexBuilt =>
        \A n \in PathNames :
            (\E k \in 1..HopCount(n) : Saturated(n, k)) =>
                /\ Delay(n) = NoValue
                /\ \A i \in 1..Len(output) : output[i].name # n

\* the loop reached a stream with a saturated hop and stopped there
C2_Witness ==
    /\ pc = "crashed"
    /\ \E k \in 1..HopCount(stream_paths[idx].key) : Saturated(stream_paths[idx].key, k)

\* C3 (as claimed): a stream with a hop whose aggregate higher-priority rate
\* meets or exceeds the link rate never gets a numeric delay.
C3_OverloadedHopReturnsNone ==
    IndexBuilt =>
        \A n \in PathNames :
            (\E k \in 1..HopCount(n) : Overloaded(n, k)) => Delay(n) = NoValue

\* C4 (as claimed): when the run has ended, every stream with a resolved
\* path for which compute_worst_case_delay returns a number has its row in
\* the output, with that delay, whatever happened to the other streams.
C4_OtherStreamsStillEmitted ==
    Terminated =>
        \A n \in PathNames :
            Delay(n) # NoValue =>
                \E i \in 1..Len(output) :
                    output[i].name = n /\ output[i].delay = Round3(Delay(n))

-----------------------------------------------------------------------------
(* The topology as the input file declares it *)

DeviceRows == {i \in 1..Len(topology_file) : Lower(topology_file[i][1]) \in {"es", "sw"}}

LinkRows == {i \in 1..Len(topology_file) : Lower(topology_file[i][1]) = "link"}

DeclaredDevices == {topology_file[i][2] : i \in DeviceRows}

LinkEnds == UNION {{topology_file[i][3], topology_file[i][5]} : i \in LinkRows}

GraphNodes == DeclaredDevices \cup LinkEnds

Linked(a, b) ==
    \E i \in LinkRows : {topology_file[i][3], topology_file[i][5]} = {a, b}

\* the nodes at most k links away from a node of S
RECURSIVE Within(_, _)
Within(S, k) ==
    IF k = 0 THEN S
    ELSE Within(S \cup {b \in GraphNodes : \E a \in S : Linked(a, b)}, k - 1)

Reach(a) == Within({a}, Cardinality(GraphNodes))

\* the least number of links from a to b (b in Reach(a))
Dist(a, b) ==
    CHOOSE k \in 0..Cardinality(GraphNodes) :
        /\ b \in Within({a}, k)
        /\ \A m \in 0..(k - 1) : b \notin Within({a}, m)

\* an endpoint is not in the graph, or the destination is out of reach
Unresolvable(s) ==
    \/ s.source \notin GraphNodes
    \/ s.destination \notin GraphNodes
    \/ s.destination \notin Reach(s.source)

Resolvable(s) == ~Unresolvable(s)

\* a first run on a new Graph with the unresolvable streams taken out of the
\* stream file
GraphAlone == load_from_csv(EmptyGraph, topology_file)

StreamsWithout == SelectSeq(streams_file, Resolvable)

PathsWithout == calculate_all_paths(GraphAlone, StreamsWithout, <<>>, 1)

IndexWithout == assign_queues(GraphAlone, StreamsWithout, PathsWithout, <<>>, 1)

RowsWithout ==
    WriteRows(GraphAlone, StreamsWithout, PathsWithout, IndexWithout,
              ConvertLinkRate(RInt(RLinkInit)), 1, <<>>)

\* C5: a stream with an endpoint outside the graph or with an unreachable
\* destination gets no stored path and no output row, and the stored paths,
\* the delay computed for every other stream and the rows written are those
\* of a run whose stream file does not contain the unresolvable streams.
C5_UnresolvableStreamIsSkipped ==
    /\ PathsStored =>
           /\ \A i \in 1..Len(streams) :
                  Unresolvable(streams[i]) =>
                      /\ streams[i].name \notin PathNames
                      /\ \A k \in 1..Len(output) : output[k].name # streams[i].name
           /\ stream_paths = PathsWithout
    /\ Terminated =>
           /\ \A n \in PathNames :
                  Delay(n) = compute_worst_case_delay(GraphAlone, StreamsWithout,
                                 PathsWithout, IndexWithout,
                                 ConvertLinkRate(RInt(RLinkInit)), n)
           /\ output = RowsWithout

\* a finished run with an unresolvable stream in the file and a row written
\* for a stream that comes after it
C5_Witness ==
    /\ pc = "done"
    /\ \E i, k \in 1..Len(streams) :
           /\ i < k
           /\ Unresolvable(streams[i])
           /\ \E o \in 1..Len(output) : output[o].name = streams[k].name

-----------------------------------------------------------------------------
\* C6 (as claimed): a second call of the entry point with the same files
\* writes the same rows as the call before it.
C6_SecondRunSameRows ==
    (Terminated /\ run > 1) => output = history[run - 1].rows

\* C7 (as claimed): whenever assign_queues has run, the index is the one a
\* single build from an empty index gives for the streams and paths.
C7_IndexRebuiltWholesale ==
    IndexBuilt =>
        queue_assignments = assign_queues(G, streams, stream_paths, <<>>, 1)

-----------------------------------------------------------------------------
\* C8: for a stream whose source and destination are distinct nodes of the
\* graph joined by some path, the stored path starts at the source, has the
\* least possible number of hops, each hop names a declared link between its
\* node and the next one, and the last element is the bare destination.
C8_StoredPathIsShortest ==
    PathsStored =>
        \A i \in 1..Len(streams) :
            LET s == streams[i]
            IN  (s.source # s.destination /\ Resolvable(s)) =>
                    /\ s.name \in PathNames
                    /\ LET H == Hops(s.name)
                       IN  /\ H[1][1] = s.source
                           /\ Len(H) - 1 = Dist(s.source, s.destination)
                           /\ H[Len(H)] = <<s.destination>>
                           /\ \A k \in 1..(Len(H) - 1) :
                                  /\ Len(H[k]) = 5
                                  /\ \E l \in LinkRows :
                                         /\ topology_file[l][2] = H[k][3]
                                         /\ {topology_file[l][3], topology_file[l][5]}
                                                = {H[k][1], H[k + 1][1]}

\* a path of two hops or more is stored where a longer route exists as well
C8_Witness ==
    /\ PathsStored
    /\ \E i \in 1..Len(streams) :
           /\ streams[i].name \in PathNames
           /\ HopCount(streams[i].name) >= 2
           /\ \E n \in GraphNodes \ {streams[i].source, streams[i].destination} :
                  /\ Linked(n, streams[i].destination)
                  /\ n \in Reach(streams[i].source)
                  /\ Dist(streams[i].source, n) >= HopCount(streams[i].name)

-----------------------------------------------------------------------------
\* link row l joins cur to nxt and portText is the port on its cur side
PortOnSide(l, cur, nxt, portText) ==
    LET row == topology_file[l]
    IN  \/ row[3] = cur /\ row[5] = nxt /\ ToString(row[4]) = portText
        \/ row[5] = cur /\ row[3] = nxt /\ ToString(row[6]) = portText

\* hop k of stream n runs against the direction in which its link is declared
AgainstDeclaration(n, k) ==
    \E l \in LinkRows :
        /\ topology_file[l][2] = Hops(n)[k][3]
        /\ topology_file[l][5] = Hops(n)[k][1]
        /\ topology_file[l][3] = Hops(n)[k + 1][1]

\* C9: at every hop of a stored path the port written in the path is the port
\* on the current node's side of the declared link whose id the hop names,
\* whichever way that link was declared; the queue key under which
\* assign_queues files the stream at that node and the port that
\* compute_worst_case_delay uses at that hop carry the same port.
C9_EgressPortIsOnCurrentSide ==
    IndexBuilt =>
        \A n \in PathNames : \A k \in 1..HopCount(n) :
            LET H == Hops(n)
                cur == H[k][1]
                nxt == H[k + 1][1]
                port == H[k][5]
            IN  /\ \E l \in LinkRows :
                       topology_file[l][2] = H[k][3] /\ PortOnSide(l, cur, nxt, port)
                /\ \E q \in 1..Len(queue_assignments) :
                       /\ queue_assignments[q].key[1] = cur
                       /\ ToString(queue_assignments[q].key[3]) = port
                       /\ Contains(queue_assignments[q].value, n)
                /\ \A q \in 1..Len(queue_assignments) :
                       (queue_assignments[q].key[1] = cur
                            /\ Contains(queue_assignments[q].value, n))
                           => ToString(queue_assignments[q].key[3]) = port
                /\ ToString(DelayPort(get_edge_data(G, cur, nxt), cur)) = port

\* a finished run with a row for a stream one of whose hops runs against the
\* declared direction of its link
C9_Witness ==
    /\ pc = "done"
    /\ \E o \in 1..Len(output) : \E k \in 1..HopCount(output[o].name) :
           AgainstDeclaration(output[o].name, k)

-----------------------------------------------------------------------------
\* C10 (as claimed): after the topology is loaded every node of the graph is
\* a declared device of kind ES or SW, so no link endpoint is undeclared.
C10_OnlyDeclaredDevices ==
    pc # "load_from_csv" =>
        \A i \in 1..Len(G.nodes) :
            /\ G.nodes[i] \in DeclaredDevices
            /\ Lower(G.type[G.nodes[i]]) \in {"es", "sw"}

-----------------------------------------------------------------------------
(* One stream's rate raised, everything else as it is *)

\* periods and sizes a stream row may be given instead of its own
PeriodChoices == {<<1, 500000>>, <<1, 1000000>>, <<1, 2000000>>}

SizeChoices == {83, 208}

\* the stream row s with its period alone or its size alone changed so that
\* its rate (size + header) / period is larger
Faster(s) ==
    {f \in {[s EXCEPT !.period = p] : p \in PeriodChoices}
              \cup {[s EXCEPT !.size = z] : z \in SizeChoices} :
        RLess(Rate(s), Rate(f))}

\* the stream list with the row of that name replaced by f
WithStream(strms, f) ==
    [i \in 1..Len(strms) |-> IF strms[i].name = f.name THEN f ELSE strms[i]]

\* d_f at hop k of stream n when the stream list is strms
BoundWith(strms, n, k) ==
    LET cur == Hops(n)[k][1]
        nxt == Hops(n)[k + 1][1]
    IN  HopBound(strms, queue_assignments, r_link, StreamByName(strms, n),
                 cur, DelayPort(get_edge_data(G, cur, nxt), cur))

\* C11 (as claimed): at every hop of a resolved path, giving a larger rate to
\* one higher-priority stream that shares the hop's egress port, with the
\* paths, the index and every other stream as they are, never makes the bound
\* d_f computed for the evaluated stream at that hop smaller.
C11_HigherRateNeverLowersBound ==
    IndexBuilt =>
        \A n \in PathNames : \A k \in 1..HopCount(n) :
            \A h \in HopView(n, k).higher :
                \A f \in Faster(StreamByName(streams, h)) :
                    LET before == BoundWith(streams, n, k)
                        after == BoundWith(WithStream(streams, f), n, k)
                    IN  (before # NoValue /\ after # NoValue) =>
                            RLeq(before, after)

-----------------------------------------------------------------------------
\* a call of compute_worst_case_delay is being made in this step
Computing == pc = "compute" /\ idx <= Len(stream_paths)

\* C12: a call of compute_worst_case_delay leaves the graph, the stream list,
\* the stored paths, the queue index and the link rate (all it reads, with
\* the two constants) as they were; and the delay in a row written earlier
\* is the delay that a call made now, after the later streams were evaluated,
\* rounds to.
C12_ComputeIsPureRead ==
    /\ [](IndexBuilt =>
             \A i \in 1..Len(output) :
                 /\ Delay(output[i].name) # NoValue
                 /\ output[i].delay = Round3(Delay(output[i].name)))
    /\ [][Computing =>
             UNCHANGED <<G, streams, stream_paths, queue_assignments, r_link>>]_vars

\* a finished run in which a stream was evaluated after another stream that
\* leaves one of its hops through the same port
C12_Witness ==
    /\ pc = "done"
    /\ \E i, j \in 1..Len(output) :
           /\ i < j
           /\ \E k \in 1..HopCount(output[j].name) :
                  output[i].name \in HopView(output[j].name, k).same
                                         \cup HopView(output[j].name, k).higher
                                         \cup HopView(output[j].name, k).lower

-----------------------------------------------------------------------------
\* the stream of that position in the stream list has a stored path
HasPath(s) == s.name \in PathNames

\* C13 (as claimed): when the run has ended the output has one row for each
\* stream with a stored path and no other row, the rows are in the order in
\* which calculate_all_paths went through the stream list, and every row
\* carries the deadline declared for its stream in the stream file and the
\* path stored for its stream.
C13_OneRowPerResolvedStream ==
    Terminated =>
        LET resolved == SelectSeq(streams, HasPath)
        IN  /\ Len(output) = Len(resolved)
            /\ \A i \in 1..Len(output) :
                   /\ i <= Len(resolved)
                   /\ output[i].name = resolved[i].name
                   /\ output[i].deadline = InputStream(output[i].name).deadline
                   /\ output[i].path = DictGet(stream_paths, output[i].name)

-----------------------------------------------------------------------------
\* the topology file declares the node as a switch (a row accepted by
\* load_from_csv as a device row whose kind is SW in either case)
DeclaredSwitch(node) ==
    \E i \in DeviceRows :
        Lower(topology_file[i][1]) = "sw" /\ topology_file[i][2] = node

\* the hops of stream n whose current node is a switch
SwitchHops(n) == {k \in 1..HopCount(n) : DeclaredSwitch(Hops(n)[k][1])}

\* the sum of d_f over the first k hops of stream n
RECURSIVE BoundSum(_, _)
BoundSum(n, k) ==
    IF k = 0 THEN RInt(0) ELSE RAdd(BoundSum(n, k - 1), ComputedBound(n, k))

\* stream n is the only stream with a path and goes end system, switch,
\* end system
AloneThroughOneSwitch(n) ==
    /\ PathNames = {n}
    /\ HopCount(n) = 2
    /\ ~DeclaredSwitch(Hops(n)[1][1])
    /\ DeclaredSwitch(Hops(n)[2][1])

\* C14 (as claimed): the number compute_worst_case_delay returns for a stream
\* is the sum of the bounds d_f of the hops of its path (the destination
\* element is no hop) plus processing_delay once for every hop whose current
\* node is a switch; for a stream alone in the network on a path end system,
\* switch, end system it is 2 * (size + header) / r_link + processing_delay.
C14_DelayIsSumPlusSwitchDelays ==
    IndexBuilt =>
        \A n \in PathNames :
            Delay(n) # NoValue =>
                /\ Delay(n) = RAdd(BoundSum(n, HopCount(n)),
                                   RInt(ProcessingDelay * Cardinality(SwitchHops(n))))
                /\ AloneThroughOneSwitch(n) =>
                       Delay(n) = RAdd(RMul(RInt(2), RDiv(BurstOf(n), r_link)),
                                       RInt(ProcessingDelay))

-----------------------------------------------------------------------------
\* all_interfering_streams as compute_worst_case_delay gathers it at hop k of
\* stream n
Gathered(n, k) ==
    LET cur == Hops(n)[k][1]
        nxt == Hops(n)[k + 1][1]
    IN  InterferingStreams(queue_assignments, cur,
                           DelayPort(get_edge_data(G, cur, nxt), cur))

\* same_priority_streams at hop k of stream n
GatheredSame(n, k) ==
    LET cur == Hops(n)[k][1]
        nxt == Hops(n)[k + 1][1]
    IN  HopTerms(streams, queue_assignments, StreamByName(streams, n), cur,
                 DelayPort(get_edge_data(G, cur, nxt), cur)).same_priority_streams

\* the queue keys under which stream m is filed at node
KeysOf(m, node) ==
    {queue_assignments[q].key : q \in {p \in 1..Len(queue_assignments) :
        /\ queue_assignments[p].key[1] = node
        /\ Contains(queue_assignments[p].value, m)}}

\* C15: in a run on a new Graph, once the index is built, the list of streams
\* that compute_worst_case_delay gathers at a hop of a stored path holds each
\* stream whose stored path leaves that node through that port, of whatever
\* priority and previous node, exactly once and no other stream; the
\* evaluated stream is in its own same-priority list, which is therefore not
\* empty.
C15_GatheredIsExactlyTheSharers ==
    IndexBuilt =>
        \A n \in PathNames : \A k \in 1..HopCount(n) :
            LET all == Gathered(n, k)
                same == GatheredSame(n, k)
            IN  /\ {all[i] : i \in 1..Len(all)} = Sharing(Hops(n)[k][1], Hops(n)[k][5])
                /\ \A i, j \in 1..Len(all) : all[i] = all[j] => i = j
                /\ Contains(same, n)
                /\ same # <<>>

\* the index is built and at some hop the gathered list holds two streams of
\* different priority that reached the node from different previous nodes
C15_Witness ==
    /\ IndexBuilt
    /\ \E n \in PathNames : \E k \in 1..HopCount(n) :
           LET all == Gathered(n, k)
               node == Hops(n)[k][1]
           IN  \E i, j \in 1..Len(all) :
                   /\ InputStream(all[i]).pcp # InputStream(all[j]).pcp
                   /\ \E a \in KeysOf(all[i], node) : \E b \in KeysOf(all[j], node) :
                          a[2] # b[2] /\ a[3] = b[3]

-----------------------------------------------------------------------------
\* C16 (as claimed): every stored path has at least one hop, and a stream
\* whose source is its destination has no stored path and no output row.
C16_NoPathForSourceEqualDestination ==
    PathsStored =>
        /\ \A n \in PathNames : HopCount(n) >= 1
        /\ \A i \in 1..Len(streams) :
               streams[i].source = streams[i].destination =>
                   /\ streams[i].name \notin PathNames
                   /\ \A o \in 1..Len(output) : output[o].name # streams[i].name

====
